---- MODULE Spec2Model ----
(***************************************************************************)
(* Model of src/config/database.py: the Database class over a CouchDB      *)
(* store (or the in-process MockDB fallback), its design-document          *)
(* bootstrap, the upsert-by-hevy_id reconciliation and the view queries.   *)
(*                                                                         *)
(* The store is the environment.  Its behaviour as used by the class:      *)
(*   db.save(doc)   without _id: a fresh id, revision 1;                   *)
(*                  with _id and the current _rev: revision + 1;           *)
(*                  with _id of a stored document and another _rev:        *)
(*                  ResourceConflict                                       *)
(*   db.view(d/v)   ResourceNotFound when the design document or the view  *)
(*                  is absent; rows ordered by key, then document id       *)
(*   db.find(q)     the documents matching every selector field            *)
(* MockDB (database.py 82-109) has save, get and find only: every other    *)
(* use of the handle raises AttributeError or TypeError.                   *)
(***************************************************************************)
EXTENDS Integers, Sequences, FiniteSets, TLC

\* ------------------------------------------------------------------ bounds
MaxDocs == 3
MaxIngestDocs == 2
MaxTime == 2
MaxMicro == 1

\* --------------------------------------------------------------- constants
NoField == "__absent__"
NoId == 0
NoRev == 0

DesignNames == {"users", "exercises", "workouts"}

\* database.py 121-178: the views each design document is created with
FixedViews(d) ==
  IF d = "users" THEN {"by_username", "by_email"}
  ELSE IF d = "exercises" THEN {"by_hevy_id", "by_muscle_group", "all"}
  ELSE {"by_hevy_id", "by_date", "by_exercise", "stats"}

CustomViewNames == {"custom"}

HevyIds == {"h1", "h2"}
Names == {"Squat", "Back Squat"}
TemplateIds == {"x1", "x2"}
Usernames == {"alice", "bob"}

\* a datetime: <<second, microsecond>>
Datetimes == (1..MaxTime) \X (0..MaxMicro)

\* chronological order of two datetimes
DtLE(a, b) == a[1] < b[1] \/ (a[1] = b[1] /\ a[2] <= b[2])

\* datetime.isoformat() (database.py 204, 265-266): "YYYY-MM-DDTHH:MM:SS",
\* followed by ".ffffff" only when the microsecond is not zero.  The string
\* is a sequence: the fixed-width seconds prefix, then the fraction if any.
isoformat(d) == IF d[2] = 0 THEN <<d[1]>> ELSE <<d[1], d[2]>>

\* the instant an ISO string written by isoformat denotes
Instant(s) == <<s[1], IF Len(s) >= 2 THEN s[2] ELSE 0>>

IsoStrings == {isoformat(d) : d \in Datetimes}

Min2(a, b) == IF a <= b THEN a ELSE b

\* view key collation of two strings: the first differing position decides,
\* a proper prefix sorts first
KeyLE(a, b) ==
  \E k \in 0..Min2(Len(a), Len(b)) :
    /\ \A i \in 1..k : a[i] = b[i]
    /\ (k = Len(a) \/ (k < Len(b) /\ a[k + 1] < b[k + 1]))

\* a stored document; a key the document does not have is NoField
\* (start_time: the empty string, exercises: always a list)
\* preferred_workout_days is absent, a scalar or a list
NoDays == [kind |-> "absent", val |-> <<>>]
DaysScalar(n) == [kind |-> "int", val |-> <<n>>]
DaysList(l) == [kind |-> "list", val |-> l]

Doc(id, rev, type, hevy, name, st, exs, user, days) ==
  [_id |-> id, _rev |-> rev, type |-> type, hevy_id |-> hevy, name |-> name,
   start_time |-> st, exercises |-> exs, username |-> user,
   preferred_workout_days |-> days, hevy_api_key |-> NoField,
   hevy_api_key_updated_at |-> NoField]

\* None, as a document
NoneDoc ==
  Doc(NoId, NoRev, NoField, NoField, NoField, <<>>, <<>>, NoField, NoDays)

\* the callers of the Database object (two browser sessions)
Callers == {"a", "b"}
Idle == [pc |-> "idle", doc |-> NoneDoc, base |-> NoneDoc]

\* app.py 58-64 has not run yet: the session state is empty
NoSession == [pc |-> "start", user_id |-> "unset", page |-> "unset",
              rendered |-> "none", as_user |-> "unset"]

NoCall == [op |-> "none", arg |-> <<>>, raised |-> FALSE, ret |-> <<>>]

VARIABLES
  pc,       \* "init" before Database.__init__ has run connect(), then "ready"
  server,   \* the CouchDB server: does the database db_name exist on it
  db,       \* self.db: "none", "couch" (the real database) or "mock" (MockDB)
  data,     \* the documents of the store behind self.db, by _id
  design,   \* the design documents of the real database: name -> view names
  counter,  \* ids handed out so far (MockDB.counter; the server's fresh uuids)
  conn,     \* how the last connect() went
  last,     \* the last call made on the Database object and what it returned
  local,    \* per caller: the document it has read or prepared and not yet saved
  lists,    \* the exercise-list documents of the store, by their fixed _id
  app       \* app.py: the Streamlit session state and where the script run is

vars == <<pc, server, db, data, design, counter, conn, last, local, lists, app>>

Ids == DOMAIN data
Docs == {data[i] : i \in Ids}

\* --------------------------------------------------------------------- Init
\* A server that may or may not hold the database already; an existing
\* database may carry some of the design documents already, with the fixed
\* views or with other ones.
Init ==
  /\ pc = "init"
  /\ db = "none"
  /\ data = <<>>
  /\ counter = 0
  /\ conn = [first |-> "none", second |-> "none", raised |-> FALSE]
  /\ last = NoCall
  /\ local = [c \in Callers |-> Idle]
  /\ lists = <<>>
  /\ app = NoSession
  /\ \E e \in BOOLEAN :
       /\ server = [exists |-> e]
       /\ IF e
            THEN \E S \in SUBSET DesignNames : \E c \in BOOLEAN :
                   design = [d \in S |-> IF c THEN CustomViewNames
                                         ELSE FixedViews(d)]
            ELSE design = <<>>

\* --------------------------------------------------- _create_design_documents
\* database.py 114-181 on the real database: each of the three design
\* documents is saved with its fixed views when "_design/<name>" is not in
\* the database, and is not touched otherwise.
BootstrapDesign_overwrite(dsg) == [d \in DesignNames |-> FixedViews(d)]
BootstrapDesign(dsg) ==
  [d \in DesignNames |-> IF d \in DOMAIN dsg THEN dsg[d] ELSE FixedViews(d)]

\* ------------------------------------------------------------------ connect
\* database.py 30-77.  first: how the guarded block 51-58 ends ("ok",
\* "unauthorized" for couchdb.http.Unauthorized, "error" for anything else,
\* couchdb.Server() at 36 included); second: how the retry 65-69 ends.
ConnectOutcomes == {"ok", "unauthorized", "error"}
RetryOutcomes == {"ok", "error"}

ConnectSucceeds(first, second) ==
  first = "ok" \/ (first = "unauthorized" /\ second = "ok")

Connect_no_fallback(first, second) ==
  /\ pc = "init"
  /\ pc' = "ready"
  /\ IF ConnectSucceeds(first, second)
       THEN /\ db' = "couch"
            /\ server' = [exists |-> TRUE]
            /\ design' = BootstrapDesign(design)
            /\ conn' = [first |-> first,
                        second |-> IF first = "unauthorized" THEN second ELSE "none",
                        raised |-> FALSE]
       ELSE /\ db' = "none"
            /\ conn' = [first |-> first,
                        second |-> IF first = "unauthorized" THEN second ELSE "none",
                        raised |-> TRUE]
            /\ UNCHANGED <<server, design>>
  /\ last' = [op |-> "connect", arg |-> <<first, second>>,
              raised |-> ~ConnectSucceeds(first, second), ret |-> <<>>]
  /\ UNCHANGED <<data, counter, local, lists, app>>

Connect(first, second) ==
  /\ pc = "init"
  /\ pc' = "ready"
  /\ IF ConnectSucceeds(first, second)
       THEN \* 52-58 or 66-69: the database is created or looked up, 72: bootstrap
            /\ db' = "couch"
            /\ server' = [exists |-> TRUE]
            /\ design' = BootstrapDesign(design)
       ELSE \* 73-77: any exception ends in _create_mock_database (79-112)
            /\ db' = "mock"
            /\ UNCHANGED <<server, design>>
  /\ conn' = [first |-> first,
              second |-> IF first = "unauthorized" THEN second ELSE "none",
              raised |-> FALSE]
  /\ last' = [op |-> "connect", arg |-> <<first, second>>, raised |-> FALSE,
              ret |-> <<>>]
  /\ UNCHANGED <<data, counter, local, lists, app>>

\* _create_design_documents run again on the connected real database
EnsureViews ==
  /\ pc = "ready"
  /\ db = "couch"
  /\ design' = BootstrapDesign(design)
  /\ last' = [op |-> "create_design_documents", arg |-> <<>>, raised |-> FALSE,
              ret |-> <<>>]
  /\ UNCHANGED <<pc, server, db, data, counter, conn, local, lists, app>>

\* ------------------------------------------------------------- create_view
\* database.py 243-256: the design document's views become the one view
\* given.  On MockDB self.db[...] raises TypeError, which 249 does not catch.
CreateView(d, v) ==
  /\ pc = "ready"
  /\ IF db = "couch"
       THEN /\ design' = (d :> {v}) @@ design
            /\ last' = [op |-> "create_view", arg |-> <<d, v>>, raised |-> FALSE,
                        ret |-> <<>>]
       ELSE /\ UNCHANGED design
            /\ last' = [op |-> "create_view", arg |-> <<d, v>>, raised |-> TRUE,
                        ret |-> <<>>]
  /\ UNCHANGED <<pc, server, db, data, counter, conn, local, lists, app>>

\* ------------------------------------------------------------ the store
MaxRev == 2

\* MockDB.save (database.py 87-92): a document without _id gets
\* mock_<counter>; the document is stored under its _id as it is (no _rev
\* is written into it) and "1-mock" is returned as the revision.
MockSave(doc) ==
  LET id == IF doc._id = NoId THEN counter + 1 ELSE doc._id
  IN [raised |-> FALSE, id |-> id, rev |-> 1,
      data |-> (id :> [doc EXCEPT !._id = id]) @@ data,
      counter |-> IF doc._id = NoId THEN counter + 1 ELSE counter]

\* couchdb Database.save on the real database: see the module header
CouchSave(doc) ==
  LET id == IF doc._id = NoId THEN counter + 1 ELSE doc._id
      stored == id \in Ids
      rev == IF stored THEN data[id]._rev + 1 ELSE 1
  IN IF stored /\ doc._rev # data[id]._rev
       THEN [raised |-> TRUE, id |-> NoId, rev |-> NoRev, data |-> data,
             counter |-> counter]
       ELSE [raised |-> FALSE, id |-> id, rev |-> rev,
             data |-> (id :> [doc EXCEPT !._id = id, !._rev = rev]) @@ data,
             counter |-> IF doc._id = NoId THEN counter + 1 ELSE counter]

\* self.db.save(doc)
DbSave(doc) == IF db = "mock" THEN MockSave(doc) ELSE CouchSave(doc)

\* a new document or another revision still fits the bounds
SaveFits(doc) ==
  IF doc._id = NoId \/ doc._id \notin Ids
    THEN Cardinality(Ids) < MaxDocs
    ELSE data[doc._id]._rev < MaxRev

\* self.db.view("<d>/<v>", ...): "ok", or the exception it raises
ViewStatus(d, v) ==
  IF db = "mock" THEN "AttributeError"
  ELSE IF d \in DOMAIN design /\ v \in design[d] THEN "ok"
  ELSE "ResourceNotFound"

\* the smallest id of a non-empty set of ids (rows of equal key come in
\* document id order)
MinId(S) == CHOOSE i \in S : \A j \in S : i <= j

\* database.py 142-144 / 163-165 with key=hevy_id: the documents of the
\* type whose hevy_id is the key
ByHevyIdRows(type, hevy) ==
  {i \in Ids : data[i].type = type /\ data[i].hevy_id = hevy}

\* get_exercise_by_hevy_id (database.py 423-442): the first row's document,
\* None when there is no row or the view call raises anything
get_exercise_by_hevy_id(hevy) ==
  IF ViewStatus("exercises", "by_hevy_id") # "ok" THEN NoneDoc
  ELSE LET rows == ByHevyIdRows("exercise", hevy)
       IN IF rows = {} THEN NoneDoc ELSE data[MinId(rows)]

\* get_workout_by_hevy_id (database.py 505-524)
get_workout_by_hevy_id(hevy) ==
  IF ViewStatus("workouts", "by_hevy_id") # "ok" THEN NoneDoc
  ELSE LET rows == ByHevyIdRows("workout", hevy)
       IN IF rows = {} THEN NoneDoc ELSE data[MinId(rows)]

\* the document a payload is: the caller's dictionary, not yet stored
ExerciseDoc(p) ==
  Doc(NoId, NoRev, p.type, p.hevy_id, p.name, <<>>, <<>>, NoField, NoDays)
WorkoutDoc(p) ==
  Doc(NoId, NoRev, p.type, p.hevy_id, p.name, p.start_time, p.exercises, NoField,
      NoDays)

\* lines 408-413 / 490-495: carry the existing document's _id and _rev
CarryForward(doc, existing) ==
  IF doc.hevy_id # NoField /\ existing # NoneDoc
    THEN [doc EXCEPT !._id = existing._id, !._rev = existing._rev]
    ELSE doc

\* the state change of an upsert: lines 416-421 / 498-503
Upsert(op, p, doc) ==
  /\ pc = "ready"
  /\ SaveFits(doc)
  /\ LET r == DbSave(doc)
     IN /\ data' = r.data
        /\ counter' = r.counter
        /\ last' = [op |-> op, arg |-> p, raised |-> r.raised, ret |-> r.id]
  /\ UNCHANGED <<pc, server, db, design, conn, local, lists, app>>

\* save_exercise (database.py 396-421)
SaveExercise(p) ==
  Upsert("save_exercise", p,
         CarryForward(ExerciseDoc(p),
                      IF p.hevy_id # NoField
                        THEN get_exercise_by_hevy_id(p.hevy_id) ELSE NoneDoc))

\* save_workout (database.py 478-503)
SaveWorkout(p) ==
  Upsert("save_workout", p,
         CarryForward(WorkoutDoc(p),
                      IF p.hevy_id # NoField
                        THEN get_workout_by_hevy_id(p.hevy_id) ELSE NoneDoc))

\* a read: nothing changes but the record of the call
Read(op, arg, raised, ret) ==
  /\ pc = "ready"
  /\ last' = [op |-> op, arg |-> arg, raised |-> raised, ret |-> ret]
  /\ UNCHANGED <<pc, server, db, data, design, counter, conn, local, lists, app>>

GetExerciseByHevyId(h) ==
  Read("get_exercise_by_hevy_id", h, FALSE, get_exercise_by_hevy_id(h))

GetWorkoutByHevyId(h) ==
  Read("get_workout_by_hevy_id", h, FALSE, get_workout_by_hevy_id(h))

\* the payloads of the ingestion runs: with and without the type
\* discriminant, with and without a hevy_id
ExercisePayloads ==
  [type : {"exercise", NoField}, hevy_id : HevyIds, name : Names]
WorkoutPayloads ==
  [type : {"workout", NoField}, hevy_id : HevyIds, name : {"Leg day"},
   start_time : {isoformat(<<1, 0>>)}, exercises : {<<>>}]

Next ==
  \/ \E f \in ConnectOutcomes, s \in RetryOutcomes : Connect(f, s)
  \/ \E d \in {"exercises", "workouts"}, v \in CustomViewNames : CreateView(d, v)
  \/ \E p \in ExercisePayloads :
       SaveExercise(p) /\ Cardinality(DOMAIN data') <= MaxIngestDocs
  \/ \E p \in WorkoutPayloads :
       SaveWorkout(p) /\ Cardinality(DOMAIN data') <= MaxIngestDocs
  \/ \E h \in HevyIds : GetExerciseByHevyId(h)
  \/ \E h \in HevyIds : GetWorkoutByHevyId(h)

Spec == Init /\ [][Next]_vars

\* ------------------------------------------------------------ view queries
WorkoutIds == {i \in Ids : data[i].type = "workout"}

\* rows of a view: the emitted key, the emitting document, and which of the
\* document's emissions it is; ordered by key, then document id
RowLE(r, q) ==
  IF r.key # q.key THEN KeyLE(r.key, q.key)
  ELSE r.id < q.id \/ (r.id = q.id /\ r.n <= q.n)

RECURSIVE SortRows(_)
SortRows(S) ==
  IF S = {} THEN <<>>
  ELSE LET m == CHOOSE r \in S : \A q \in S : RowLE(r, q)
       IN <<m>> \o SortRows(S \ {m})

\* [row.value for row in ...]: every view here emits the document as value
RowValues(rows) == [k \in 1..Len(rows) |-> data[rows[k].id]]

Returned(rows) == [raised |-> FALSE, rows |-> rows]
Raised == [raised |-> TRUE, rows |-> <<>>]

\* workouts/by_date (database.py 166-168) between startkey and endkey,
\* both included
ByDateRows(startkey, endkey) ==
  SortRows({[key |-> data[i].start_time, id |-> i, n |-> 1] :
              i \in {j \in WorkoutIds : /\ KeyLE(startkey, data[j].start_time)
                                        /\ KeyLE(data[j].start_time, endkey)}})

\* workouts/by_exercise (database.py 169-171) between [x] and [x, {}]: one
\* row per exercise entry with template id x, keyed [x, start_time]
ByExerciseRows(x) ==
  SortRows(UNION {{[key |-> data[i].start_time, id |-> i, n |-> k] :
                     k \in {m \in 1..Len(data[i].exercises) :
                              data[i].exercises[m] = x}} : i \in WorkoutIds})

\* get_workouts_by_date_range (database.py 258-272): only ResourceNotFound
\* is caught
get_workouts_by_date_range(start, end) ==
  LET st == ViewStatus("workouts", "by_date")
  IN IF st = "ok"
       THEN Returned(RowValues(ByDateRows(isoformat(start), isoformat(end))))
     ELSE IF st = "ResourceNotFound" THEN Returned(<<>>)
     ELSE Raised

\* get_workouts_by_exercise (database.py 274-283): nothing is caught
get_workouts_by_exercise(x) ==
  IF ViewStatus("workouts", "by_exercise") = "ok"
    THEN Returned(RowValues(ByExerciseRows(x)))
    ELSE Raised

\* get_workout_progression (database.py 298-308): the same query with
\* include_docs; nothing is caught
get_workout_progression(x) ==
  IF ViewStatus("workouts", "by_exercise") = "ok"
    THEN Returned(RowValues(ByExerciseRows(x)))
    ELSE Raised

RECURSIVE SumExerciseCount(_)
SumExerciseCount(S) ==
  IF S = {} THEN 0
  ELSE LET i == CHOOSE j \in S : TRUE
       IN Len(data[i].exercises) + SumExerciseCount(S \ {i})

\* workouts/stats (database.py 172-175) reduced over a set of workouts:
\* no row when nothing was emitted (the duration sum is left out)
StatsRows(S) ==
  IF S = {} THEN <<>>
  ELSE <<[total_exercises |-> SumExerciseCount(S), count |-> Cardinality(S)]>>

\* get_workout_stats (database.py 285-296); range = <<>> for no bounds,
\* <<start, end>> otherwise; nothing is caught
get_workout_stats(range) ==
  IF ViewStatus("workouts", "stats") # "ok" THEN Raised
  ELSE IF range = <<>> THEN Returned(StatsRows(WorkoutIds))
  ELSE Returned(StatsRows({j \in WorkoutIds :
                  /\ KeyLE(isoformat(range[1]), data[j].start_time)
                  /\ KeyLE(data[j].start_time, isoformat(range[2]))}))

\* get_all_exercises (database.py 465-476): every exception gives []
get_all_exercises ==
  IF ViewStatus("exercises", "all") # "ok" THEN Returned(<<>>)
  ELSE Returned(RowValues(SortRows({[key |-> <<i>>, id |-> i, n |-> 1] :
                  i \in {j \in Ids : data[j].type = "exercise"}})))

\* get_users_by_fitness_goal (database.py 346-353): the view
\* users/by_fitness_goals is none of the bootstrapped ones; nothing is
\* caught.  No document of the model carries fitness goals.
get_users_by_fitness_goal ==
  IF ViewStatus("users", "by_fitness_goals") # "ok" THEN Raised
  ELSE Returned(<<>>)

\* the view behind each read
BackingView(op) ==
  IF op = "get_workouts_by_date_range" THEN <<"workouts", "by_date">>
  ELSE IF op = "get_workout_stats" THEN <<"workouts", "stats">>
  ELSE IF op = "get_all_exercises" THEN <<"exercises", "all">>
  ELSE IF op = "get_users_by_fitness_goal" THEN <<"users", "by_fitness_goals">>
  ELSE <<"workouts", "by_exercise">>

ViewReads ==
  {"get_workouts_by_date_range", "get_workouts_by_exercise",
   "get_workout_stats", "get_workout_progression", "get_all_exercises",
   "get_users_by_fitness_goal"}

Query(op, arg, r) == Read(op, arg, r.raised, r.rows)

GetWorkoutsByDateRange(start, end) ==
  Query("get_workouts_by_date_range", <<start, end>>,
        get_workouts_by_date_range(start, end))

GetWorkoutsByExercise(x) ==
  Query("get_workouts_by_exercise", x, get_workouts_by_exercise(x))

GetWorkoutProgression(x) ==
  Query("get_workout_progression", x, get_workout_progression(x))

GetWorkoutStats(range) ==
  Query("get_workout_stats", range, get_workout_stats(range))

GetAllExercises == Query("get_all_exercises", <<>>, get_all_exercises)

GetUsersByFitnessGoal ==
  Query("get_users_by_fitness_goal", <<>>, get_users_by_fitness_goal)

\* the workouts of the query runs: typed, without hevy_id, at every start
\* time, with exercise lists that hold a template id once, twice or not
ExerciseLists == {<<"x1">>, <<"x2">>, <<"x1", "x1">>}
QueryWorkoutPayloads ==
  [type : {"workout"}, hevy_id : {NoField}, name : {"Leg day"},
   start_time : IsoStrings, exercises : ExerciseLists]

Ranges == {r \in Datetimes \X Datetimes : DtLE(r[1], r[2])}

\* a database freshly created by connect()
InitFresh == Init /\ ~server.exists

NextQuery ==
  \/ \E f \in ConnectOutcomes, s \in RetryOutcomes : Connect(f, s)
  \/ \E v \in CustomViewNames : CreateView("workouts", v)
  \/ \E p \in QueryWorkoutPayloads : SaveWorkout(p)
  \/ \E r \in Ranges : GetWorkoutsByDateRange(r[1], r[2])
  \/ \E x \in TemplateIds : GetWorkoutsByExercise(x)
  \/ \E x \in TemplateIds : GetWorkoutProgression(x)
  \/ \E r \in Ranges \cup {<<>>} : GetWorkoutStats(r)
  \/ GetAllExercises
  \/ GetUsersByFitnessGoal

SpecQuery == InitFresh /\ [][NextQuery]_vars

\* -------------------------------------------------------------------- users
\* self.db.find({"selector": sel}) (MockDB.find: database.py 97-109): the
\* documents that have every selector key with the selector's value
Find(type, username) ==
  {i \in Ids : data[i].type = type /\ data[i].username = username}

\* username_exists (database.py 334-344)
username_exists_any_type(name) == {i \in Ids : data[i].username = name} # {}
username_exists(name) == Find("user_profile", name) # {}

UsernameExists(name) ==
  Read("username_exists", name, FALSE, username_exists(name))

\* save_document (database.py 183-195): the document is normalised (a
\* document of JSON values is returned as it is, 197-210) and saved; an
\* exception of db.save is raised again
DocInputs == [type : {"user_profile", "note"}, username : Usernames]

SaveDocument(d) ==
  LET doc == Doc(NoId, NoRev, d.type, NoField, NoField, <<>>, <<>>, d.username,
                 NoDays)
  IN /\ pc = "ready"
     /\ SaveFits(doc)
     /\ LET r == DbSave(doc)
        IN /\ data' = r.data
           /\ counter' = r.counter
           /\ last' = [op |-> "save_document", arg |-> d, raised |-> r.raised,
                       ret |-> <<r.id, r.rev>>]
     /\ UNCHANGED <<pc, server, db, design, conn, local, lists, app>>

NextUsers ==
  \/ \E f \in ConnectOutcomes, s \in RetryOutcomes : Connect(f, s)
  \/ \E d \in DocInputs : SaveDocument(d)
  \/ \E n \in Usernames : UsernameExists(n)

SpecUsers == Init /\ [][NextUsers]_vars

\* ------------------------------------------------ read, change, write back
\* lines 320-327: a preferred_workout_days that is a list becomes its first
\* element
Coerce(doc) ==
  IF doc.preferred_workout_days.kind = "list"
    THEN [doc EXCEPT !.preferred_workout_days = DaysScalar(Head(@.val))]
    ELSE doc

\* lines 320-324 on an empty list: [][0] raises IndexError
CoerceRaises(doc) ==
  doc.preferred_workout_days.kind = "list" /\ doc.preferred_workout_days.val = <<>>

\* get_user_by_username (database.py 311-332): the first document the query
\* finds, repaired; None when nothing is found or when anything raises
get_user_by_username(name) ==
  LET rows == Find("user_profile", name)
  IN IF rows = {} THEN NoneDoc
     ELSE IF CoerceRaises(data[MinId(rows)]) THEN NoneDoc
     ELSE Coerce(data[MinId(rows)])

\* The call made by caller c, who keeps the returned document. MockDB.find
\* (97-109) hands out the stored dictionaries themselves, so that the repair
\* of line 324 is made in the mock store too; the real store's find builds
\* new documents from the server's answer.
GetUserByUsername(c, name) ==
  LET rows == Find("user_profile", name)
      ret == get_user_by_username(name)
  IN /\ pc = "ready"
     /\ local[c].pc \in {"idle", "read"}
     /\ data' = IF db = "mock" /\ ret # NoneDoc
                  THEN (ret._id :> ret) @@ data
                  ELSE data
     /\ local' = IF ret = NoneDoc THEN local
                  ELSE [local EXCEPT ![c] = [pc |-> "read", doc |-> ret,
                                             base |-> ret]]
     /\ last' = [op |-> "get_user_by_username", arg |-> name, raised |-> FALSE,
                 ret |-> ret]
     /\ UNCHANGED <<pc, server, db, design, counter, conn, lists, app>>

\* the outcome of a write-back, as the caller's state
Written(c, doc, r) ==
  [local EXCEPT ![c] = [pc |-> IF r.raised THEN "conflict" ELSE "ok",
                        doc |-> doc, base |-> @.base]]

\* update_document (database.py 226-228), called by caller c with the
\* document it holds, changed: self.db.save(doc), whose ResourceConflict is
\* not caught. On the mock store the document held is the stored dictionary.
UpdateDocument(c, v) ==
  /\ pc = "ready"
  /\ local[c].pc = "read"
  /\ LET held == IF db = "mock" THEN data[local[c].doc._id] ELSE local[c].doc
         doc == [held EXCEPT !.name = v]
         r == DbSave(doc)
     IN /\ r.raised \/ SaveFits(doc)
        /\ data' = r.data
        /\ counter' = r.counter
        /\ local' = Written(c, doc, r)
        /\ last' = [op |-> "update_document", arg |-> <<c, v>>,
                    raised |-> r.raised, ret |-> <<r.id, r.rev>>]
  /\ UNCHANGED <<pc, server, db, design, conn, lists, app>>

ApiKeys == {"k1", "k2"}

\* update_user_hevy_api_key, line 376: user_doc = self.db[user_id]. MockDB
\* has no __getitem__: the TypeError is not caught by line 380. On the real
\* store a missing document makes the call return None.
ApiKeyRead(c, id) ==
  /\ pc = "ready"
  /\ local[c].pc = "idle"
  /\ IF db = "mock"
       THEN /\ last' = [op |-> "update_user_hevy_api_key", arg |-> id,
                        raised |-> TRUE, ret |-> <<>>]
            /\ UNCHANGED local
       ELSE IF id \notin Ids
         THEN /\ last' = [op |-> "update_user_hevy_api_key", arg |-> id,
                          raised |-> FALSE, ret |-> <<>>]
              /\ UNCHANGED local
         ELSE /\ local' = [local EXCEPT ![c] = [pc |-> "keyread",
                                                doc |-> data[id],
                                                base |-> data[id]]]
              /\ UNCHANGED last
  /\ UNCHANGED <<pc, server, db, data, design, counter, conn, lists, app>>

\* update_user_hevy_api_key, lines 377-379: set the key and the time of the
\* change (the time zone suffix of the string is constant and left out),
\* then self.db.save(user_doc); a ResourceConflict is not caught
ApiKeySave(c, k, t) ==
  /\ pc = "ready"
  /\ local[c].pc = "keyread"
  /\ LET doc == [local[c].doc EXCEPT !.hevy_api_key = k,
                                     !.hevy_api_key_updated_at = isoformat(t)]
         r == DbSave(doc)
     IN /\ r.raised \/ SaveFits(doc)
        /\ data' = r.data
        /\ counter' = r.counter
        /\ local' = Written(c, doc, r)
        /\ last' = [op |-> "update_user_hevy_api_key", arg |-> <<c, k>>,
                    raised |-> r.raised, ret |-> <<r.id, r.rev>>]
  /\ UNCHANGED <<pc, server, db, design, conn, lists, app>>

NextUpdate ==
  \/ \E f \in ConnectOutcomes, s \in RetryOutcomes : Connect(f, s)
  \/ \E d \in DocInputs : SaveDocument(d)
  \/ \E c \in Callers, n \in Usernames : GetUserByUsername(c, n)
  \/ \E c \in Callers, v \in Names : UpdateDocument(c, v)
  \/ \E c \in Callers, i \in 1..MaxDocs : ApiKeyRead(c, i)
  \/ \E c \in Callers, k \in ApiKeys : ApiKeySave(c, k, <<MaxTime, 0>>)

SpecUpdate == Init /\ [][NextUpdate]_vars

\* ------------------------------------------------------ the two stores
\* the payloads of a sync: typed, with a hevy_id
TypedExercisePayloads == {p \in ExercisePayloads : p.type = "exercise"}
TypedWorkoutPayloads == {p \in WorkoutPayloads : p.type = "workout"}

\* get_document (database.py 212-224): self.db[doc_id]. The real store
\* answers with the document or ResourceNotFound (None is returned); MockDB
\* has no __getitem__, and the TypeError is logged and raised (222-224).
GetDocument(id) ==
  IF db = "mock" THEN Read("get_document", id, TRUE, NoneDoc)
  ELSE IF id \in Ids THEN Read("get_document", id, FALSE, data[id])
  ELSE Read("get_document", id, FALSE, NoneDoc)

NextStores ==
  \/ \E f \in ConnectOutcomes, s \in RetryOutcomes : Connect(f, s)
  \/ \E d \in DocInputs : SaveDocument(d)
  \/ \E i \in 1..MaxDocs : GetDocument(i)
  \/ \E p \in TypedExercisePayloads : SaveExercise(p)
  \/ \E p \in TypedWorkoutPayloads : SaveWorkout(p)
  \/ \E h \in HevyIds : GetExerciseByHevyId(h)
  \/ \E n \in Usernames : UsernameExists(n)

SpecStores == Init /\ [][NextStores]_vars

\* ------------------------------------------------- interleaved upserts
\* An upsert is two calls to the store, the lookup by hevy_id and the save;
\* the calls of two callers interleave.

\* save_exercise 406-413 / save_workout 488-495: the lookup, and the
\* identity of the existing document carried into the caller's dictionary
Lookup(c, doc, existing) ==
  /\ pc = "ready"
  /\ local[c].pc = "idle"
  /\ local' = [local EXCEPT ![c] = [pc |-> "looked",
                                    doc |-> CarryForward(doc, existing),
                                    base |-> existing]]
  /\ UNCHANGED <<pc, server, db, data, design, counter, conn, last, lists, app>>

LookupExercise(c, p) ==
  Lookup(c, ExerciseDoc(p), get_exercise_by_hevy_id(p.hevy_id))

LookupWorkout(c, p) ==
  Lookup(c, WorkoutDoc(p), get_workout_by_hevy_id(p.hevy_id))

\* save_exercise 416-421 / save_workout 498-503: self.db.save(...); an
\* exception (the ResourceConflict of a stale _rev) is logged and raised
SaveLooked(c) ==
  /\ pc = "ready"
  /\ local[c].pc = "looked"
  /\ LET doc == local[c].doc
         r == DbSave(doc)
     IN /\ r.raised \/ SaveFits(doc)
        /\ data' = r.data
        /\ counter' = r.counter
        /\ local' = Written(c, doc, r)
        /\ last' = [op |-> "save", arg |-> c, raised |-> r.raised, ret |-> r.id]
  /\ UNCHANGED <<pc, server, db, design, conn, lists, app>>

NextRace ==
  \/ \E f \in ConnectOutcomes, s \in RetryOutcomes : Connect(f, s)
  \/ \E c \in Callers, p \in TypedExercisePayloads : LookupExercise(c, p)
  \/ \E c \in Callers, p \in TypedWorkoutPayloads : LookupWorkout(c, p)
  \/ \E c \in Callers : SaveLooked(c)

SpecRace == Init /\ [][NextRace]_vars

\* ---------------------------------------------------------- user profiles
\* the values of preferred_workout_days a stored profile has: none, a day
\* count, or the list of an earlier format (which may be empty)
DayValues ==
  {NoDays, DaysScalar(3), DaysList(<<>>), DaysList(<<3>>), DaysList(<<5, 3>>)}

ProfileInputs == [username : Usernames, preferred_workout_days : DayValues]

\* save_document (database.py 183-195) of a user profile
SaveProfile(d) ==
  LET doc == Doc(NoId, NoRev, "user_profile", NoField, NoField, <<>>, <<>>,
                 d.username, d.preferred_workout_days)
  IN /\ pc = "ready"
     /\ SaveFits(doc)
     /\ Cardinality(Ids) < MaxIngestDocs
     /\ LET r == DbSave(doc)
        IN /\ data' = r.data
           /\ counter' = r.counter
           /\ last' = [op |-> "save_document", arg |-> d, raised |-> r.raised,
                       ret |-> <<r.id, r.rev>>]
     /\ UNCHANGED <<pc, server, db, design, conn, local, lists, app>>

NextProfile ==
  \/ \E f \in ConnectOutcomes, s \in RetryOutcomes : Connect(f, s)
  \/ \E d \in ProfileInputs : SaveProfile(d)
  \/ \E c \in Callers, n \in Usernames : GetUserByUsername(c, n)
  \/ \E n \in Usernames : UsernameExists(n)

SpecProfile == Init /\ [][NextProfile]_vars

\* ------------------------------------------------------- exercise lists
UserIds == {"u1", "u2"}
NoUser == NoField

\* lines 541-548: the fixed document id and type of a list
ListDocId(user_id) ==
  IF user_id = NoUser THEN "base_exercises"
  ELSE IF user_id = "u1" THEN "custom_exercises_u1"
  ELSE "custom_exercises_u2"

ListDocType(user_id) ==
  IF user_id = NoUser THEN "base_exercise_list" ELSE "custom_exercise_list"

\* the lists a caller passes: items are named by their template id
ListInputs == {<<>>, <<"x1">>, <<"x2", "x1">>}

NoList == [_rev |-> NoRev, type |-> NoField, exercises |-> <<>>,
           updated_at |-> NoField]

\* self.db.get(doc_id), of the real store and of MockDB (94-95): the
\* document, or None
DbGet(id) == IF id \in DOMAIN lists THEN lists[id] ELSE NoList

\* lines 591-592 / 599-600 / 623-625: the list of a document that is there
ExercisesOf(doc) == IF doc # NoList THEN doc.exercises ELSE <<>>

\* save_exercises (database.py 526-571). Line 559 reads self.db[doc_id] to
\* carry the revision: MockDB has no __getitem__, the TypeError is caught by
\* line 569 and raised again, and nothing is saved. On the real store the
\* document is written at the next revision with the list given.
SaveExercises(L, user_id, t) ==
  LET id == ListDocId(user_id)
      rev == DbGet(id)._rev + 1
  IN /\ pc = "ready"
     /\ rev <= MaxRev
     /\ IF db = "mock"
          THEN /\ UNCHANGED lists
               /\ last' = [op |-> "save_exercises", arg |-> <<L, user_id>>,
                           raised |-> TRUE, ret |-> <<>>]
          ELSE /\ lists' = (id :> [_rev |-> rev, type |-> ListDocType(user_id),
                                   exercises |-> L,
                                   updated_at |-> isoformat(t)]) @@ lists
               /\ last' = [op |-> "save_exercises", arg |-> <<L, user_id>>,
                           raised |-> FALSE, ret |-> <<>>]
     /\ UNCHANGED <<pc, server, db, data, design, counter, conn, local, app>>

\* get_exercises (database.py 573-609): the base list, then the custom list
\* when include_custom and user_id are both true
get_exercises_always_custom(user_id, include_custom) ==
  ExercisesOf(DbGet("base_exercises"))
    \o (IF user_id # NoUser
          THEN ExercisesOf(DbGet(ListDocId(user_id))) ELSE <<>>)
get_exercises(user_id, include_custom) ==
  ExercisesOf(DbGet("base_exercises"))
    \o (IF include_custom /\ user_id # NoUser
          THEN ExercisesOf(DbGet(ListDocId(user_id))) ELSE <<>>)

\* get_custom_exercises (database.py 611-631)
get_custom_exercises(user_id) == ExercisesOf(DbGet(ListDocId(user_id)))

GetExercises(user_id, include_custom) ==
  Read("get_exercises", <<user_id, include_custom>>, FALSE,
       get_exercises(user_id, include_custom))

GetCustomExercises(user_id) ==
  Read("get_custom_exercises", user_id, FALSE, get_custom_exercises(user_id))

NextLists ==
  \/ \E f \in ConnectOutcomes, s \in RetryOutcomes : Connect(f, s)
  \/ \E L \in ListInputs, u \in UserIds \cup {NoUser} :
       SaveExercises(L, u, <<MaxTime, 0>>)
  \/ \E u \in UserIds \cup {NoUser}, c \in BOOLEAN : GetExercises(u, c)
  \/ \E u \in UserIds : GetCustomExercises(u)

SpecLists == Init /\ [][NextLists]_vars

\* ------------------------------------------------------------- app.py
\* One script run of app.py is: the session defaults (58-64), sidebar()
\* (75-157), render_page() (160-179). st.rerun() ends the run where it is
\* called and starts the next one. app.pc is where the run is; between runs
\* it is "start". The username key (61-62) plays no part in navigation and
\* is left out.
ProtectedPages ==
  {"dashboard", "workout_history", "ai_recommendations", "routines",
   "sync_hevy", "profile"}
PublicPages == {"login", "register"}

\* the values the page components may leave in the session: their code sets
\* user_id at login and may set page to any name, one without a branch in
\* render_page included, or delete a key
SessionUserIds == UserIds \cup {NoUser, "unset"}
SessionPages ==
  ProtectedPages \cup PublicPages \cup {"workout_preferences", "unset"}

\* lines 58-64
InitSession ==
  /\ app.pc = "start"
  /\ app' = [pc |-> "sidebar",
             user_id |-> IF app.user_id = "unset" THEN NoUser ELSE app.user_id,
             page |-> IF app.page = "unset" THEN "dashboard" ELSE app.page,
             rendered |-> "none",
             as_user |-> "unset"]
  /\ UNCHANGED <<pc, server, db, data, design, counter, conn, last, local, lists>>

\* lines 107-110: the Clear Caches button was pressed
ClearCaches ==
  /\ app.pc = "sidebar"
  /\ app' = [app EXCEPT !.pc = "start"]
  /\ UNCHANGED <<pc, server, db, data, design, counter, conn, last, local, lists>>

\* line 113
LoggedIn == app.user_id \notin {"unset", NoUser}

\* lines 112-157 with the radio's selection, named by the page it stands
\* for; "logout" clears the session and reruns
Sidebar_keeps_page(selected) ==
  /\ app.pc = "sidebar"
  /\ IF LoggedIn
       THEN /\ selected \in ProtectedPages \cup {"logout"}
            /\ app' = IF selected = "logout"
                        THEN [app EXCEPT !.pc = "start", !.user_id = "unset",
                                         !.page = "unset"]
                        ELSE [app EXCEPT !.pc = "render", !.page = selected]
       ELSE /\ selected \in PublicPages
            /\ app' = [app EXCEPT !.pc = "render"]
  /\ UNCHANGED <<pc, server, db, data, design, counter, conn, last, local, lists>>
Sidebar(selected) ==
  /\ app.pc = "sidebar"
  /\ IF LoggedIn
       THEN /\ selected \in ProtectedPages \cup {"logout"}
            /\ app' = IF selected = "logout"
                        THEN [app EXCEPT !.pc = "start", !.user_id = "unset",
                                         !.page = "unset"]
                        ELSE [app EXCEPT !.pc = "render", !.page = selected]
       ELSE /\ selected \in PublicPages
            /\ app' = [app EXCEPT !.pc = "render", !.page = selected]
  /\ UNCHANGED <<pc, server, db, data, design, counter, conn, last, local, lists>>

\* render_page (160-179): the page component of session page is called, if
\* the name has a branch; what the component leaves in the session is any
\* of the values above
RenderPage(user_id, page) ==
  /\ app.pc = "render"
  /\ app' = [pc |-> "start",
             user_id |-> user_id,
             page |-> page,
             rendered |-> IF app.page \in ProtectedPages \cup PublicPages
                            THEN app.page ELSE "none",
             as_user |-> app.user_id]
  /\ UNCHANGED <<pc, server, db, data, design, counter, conn, last, local, lists>>

NextApp ==
  \/ InitSession
  \/ ClearCaches
  \/ \E selected \in ProtectedPages \cup PublicPages \cup {"logout"} :
       Sidebar(selected)
  \/ \E u \in SessionUserIds, p \in SessionPages : RenderPage(u, p)

SpecApp == Init /\ [][NextApp]_vars

\* ------------------------------------------------------------------ claims
\* the payload fields of a stored document
ExerciseFields(d) == [type |-> d.type, hevy_id |-> d.hevy_id, name |-> d.name]
WorkoutFields(d) ==
  [type |-> d.type, hevy_id |-> d.hevy_id, name |-> d.name,
   start_time |-> d.start_time, exercises |-> d.exercises]

\* a step that is a successful upsert <op> directly after a successful
\* upsert <op>
SecondUpsert(op) ==
  /\ last.op = op /\ ~last.raised
  /\ last'.op = op /\ ~last'.raised

\* C1: calling save_exercise (save_workout) twice in sequence with the same
\* payload P leaves exactly one stored document with P's fields, and the
\* second call returns the _id the first call returned.
C1_IdempotentIngestion ==
  [][/\ (SecondUpsert("save_exercise") /\ last'.arg = last.arg)
          => /\ last'.ret = last.ret
             /\ Cardinality({i \in DOMAIN data' :
                               ExerciseFields(data'[i]) = last'.arg}) = 1
     /\ (SecondUpsert("save_workout") /\ last'.arg = last.arg)
          => /\ last'.ret = last.ret
             /\ Cardinality({i \in DOMAIN data' :
                               WorkoutFields(data'[i]) = last'.arg}) = 1]_vars

\* C2: in every reachable state there is at most one exercise document and
\* at most one workout document per hevy_id.
C2_OneDocumentPerHevyId ==
  \A h \in HevyIds, t \in {"exercise", "workout"} :
    Cardinality(ByHevyIdRows(t, h)) <= 1

\* C3: save_workout(P1) then save_workout(P2) with P1's hevy_id: the second
\* call stores under the _id created for P1, and the stored revision differs
\* from the one the document had after the first call.
C3_UpsertPreservesIdentity ==
  [][(SecondUpsert("save_workout") /\ last'.arg.hevy_id = last.arg.hevy_id)
       => /\ last'.ret = last.ret
          /\ data'[last'.ret]._rev # data[last.ret]._rev]_vars

\* C4: after a save_exercise call, get_exercise_by_hevy_id of the payload's
\* hevy_id returns a document with exactly the fields of that last payload,
\* under the _id the call returned.
C4_MostRecentPayloadWins ==
  (last.op = "save_exercise" /\ ~last.raised)
    => LET d == get_exercise_by_hevy_id(last.arg.hevy_id)
       IN /\ d # NoneDoc
          /\ ExerciseFields(d) = last.arg
          /\ d._id = last.ret

\* the documents a read returned
ReturnedDocs == {last.ret[k] : k \in 1..Len(last.ret)}

\* C5: get_workouts_by_date_range(start, end) with start <= end returns
\* exactly the stored workouts whose start_time lies in [start, end], both
\* bounds included.
C5_RangeQueryCorrectness ==
  last.op = "get_workouts_by_date_range"
    => /\ ~last.raised
       /\ ReturnedDocs =
            {data[i] : i \in {j \in WorkoutIds :
               /\ DtLE(last.arg[1], Instant(data[j].start_time))
               /\ DtLE(Instant(data[j].start_time), last.arg[2])}}

\* C6: a view read made while its design document or view does not exist
\* returns an empty sequence and does not raise.
C6_MissingViewResilience ==
  (/\ last.op \in ViewReads
   /\ ViewStatus(BackingView(last.op)[1], BackingView(last.op)[2]) # "ok")
    => (~last.raised /\ last.ret = <<>>)

\* a step that saves a user_profile document with the username
SavesUser(name) ==
  /\ last'.op = "save_document" /\ ~last'.raised
  /\ last'.arg = [type |-> "user_profile", username |-> name]

\* C7: username_exists(name) is false as long as no user_profile document
\* with that username has been saved, and true in the state right after one
\* is saved.
C7_UsernameExists ==
  /\ \A name \in Usernames : ~username_exists(name)
  /\ [][\A name \in Usernames :
          /\ SavesUser(name) => username_exists(name)'
          /\ (~SavesUser(name) /\ ~username_exists(name))
               => ~username_exists(name)']_vars

C7_Witness ==
  /\ last.op = "save_document"
  /\ last.arg = [type |-> "user_profile", username |-> "alice"]
  /\ username_exists("alice")
  /\ ~username_exists("bob")
  /\ \E i \in Ids : data[i].type = "note" /\ data[i].username = "bob"

\* C8: get_workout_progression(x) returns the stored workouts that contain
\* an exercise with template id x, only those, in ascending start_time order.
C8_ProgressionOrdering ==
  last.op = "get_workout_progression"
    => /\ ~last.raised
       /\ ReturnedDocs =
            {data[i] : i \in {j \in WorkoutIds :
               \E k \in 1..Len(data[j].exercises) :
                 data[j].exercises[k] = last.arg}}
       /\ \A a, b \in 1..Len(last.ret) :
            a < b => DtLE(Instant(last.ret[a].start_time),
                          Instant(last.ret[b].start_time))

\* a step that runs _create_design_documents on the real database
BootstrapStep ==
  /\ last'.op \in {"connect", "create_design_documents"}
  /\ db' = "couch"

\* C9: the bootstrap creates each of the three design documents with its
\* fixed views only when it is absent, leaves an existing design document
\* as it is whatever its views, touches nothing else, and a second run
\* changes nothing.
C9_BootstrapIdempotent ==
  [][/\ BootstrapStep
          => /\ DOMAIN design' = DesignNames
             /\ \A d \in DesignNames :
                  design'[d] = IF d \in DOMAIN design THEN design[d]
                               ELSE FixedViews(d)
             /\ data' = data /\ counter' = counter
     /\ (BootstrapStep /\ last.op \in {"connect", "create_design_documents"}
           /\ db = "couch")
          => (design' = design /\ data' = data /\ server' = server)]_vars

C9_Witness ==
  /\ last.op = "create_design_documents"
  /\ design["workouts"] = CustomViewNames
  /\ design["users"] = FixedViews("users")

\* C10 as stated: connect() does not raise, leaves the handle set, and the
\* handle is the mock store whenever a step of the attempt raised.
C10_AnyErrorEndsInMock ==
  pc = "ready"
    => /\ ~conn.raised
       /\ db \in {"couch", "mock"}
       /\ (conn.first # "ok" \/ conn.second = "error") => db = "mock"

\* C10 (amended): connect() does not raise and leaves the handle set; the
\* handle is the mock store exactly when the attempt failed for good: an
\* error other than Unauthorized in the first attempt, or an error in the
\* retry without credentials.  Unauthorized followed by a successful retry
\* ends with the real database.
C10_ConnectNeverPropagates ==
  pc = "ready"
    => /\ ~conn.raised
       /\ db \in {"couch", "mock"}
       /\ db = "mock" <=> \/ conn.first = "error"
                          \/ conn.first = "unauthorized" /\ conn.second = "error"

C10_Witness ==
  /\ pc = "ready"
  /\ conn.first = "unauthorized" /\ conn.second = "error"
  /\ db = "mock"

\* C11: when two callers have read the same document at the same _rev and
\* both have written it back, exactly one write succeeded, the other raised
\* the conflict, and the stored document is the winner's at the next
\* revision (nothing of the failed write is in it: it was not retried).
Finished(c) == local[c].pc \in {"ok", "conflict"}

SameRead(c1, c2) ==
  /\ c1 # c2
  /\ Finished(c1) /\ Finished(c2)
  /\ local[c1].base._id = local[c2].base._id
  /\ local[c1].base._rev = local[c2].base._rev

C11_OptimisticConcurrency ==
  \A w, l \in Callers :
    SameRead(w, l) =>
      \E c \in {w, l} :
        /\ local[c].pc = "ok"
        /\ \A o \in {w, l} \ {c} : local[o].pc = "conflict"
        /\ data[local[c].base._id]
             = [local[c].doc EXCEPT !._rev = local[c].base._rev + 1]

\* C12: a save_exercises(L, user_id) call leaves the list document of its
\* fixed id holding exactly L, and every other list document as it was.
C12_WholesaleReplace ==
  [][\A L \in ListInputs, u \in UserIds \cup {NoUser} :
       SaveExercises(L, u, <<MaxTime, 0>>) =>
         /\ ListDocId(u) \in DOMAIN lists'
         /\ lists'[ListDocId(u)].exercises = L
         /\ \A j \in DOMAIN lists \ {ListDocId(u)} :
              j \in DOMAIN lists' /\ lists'[j] = lists[j]]_vars

\* C13: get_exercises never raises and returns the stored base list (empty
\* when the document is missing) followed, when include_custom is true and a
\* user_id is given, by that user's stored custom list (empty when missing).
StoredList(id) == IF id \in DOMAIN lists THEN lists[id].exercises ELSE <<>>

C13_GetExercises ==
  last.op = "get_exercises" =>
    /\ ~last.raised
    /\ last.ret = StoredList("base_exercises")
                    \o (IF last.arg[2] /\ last.arg[1] # NoUser
                          THEN StoredList(ListDocId(last.arg[1]))
                          ELSE <<>>)

C13_Witness ==
  /\ last.op = "get_exercises"
  /\ last.arg = <<"u1", TRUE>>
  /\ "custom_exercises_u2" \in DOMAIN lists
  /\ "base_exercises" \in DOMAIN lists
  /\ "custom_exercises_u1" \in DOMAIN lists
  /\ lists["base_exercises"].exercises = <<"x1">>
  /\ lists["custom_exercises_u1"].exercises = <<"x2", "x1">>
  /\ last.ret = <<"x1", "x2", "x1">>

\* C14: get_user_by_username(name) returns None when no user_profile document
\* has the username, and otherwise the first such document with every field
\* as stored, except that a preferred_workout_days that is a list is
\* returned as the list's first element.
C14_GetUserByUsername ==
  last.op = "get_user_by_username" =>
    LET rows == Find("user_profile", last.arg)
    IN IF rows = {} THEN last.ret = NoneDoc
       ELSE LET stored == data[MinId(rows)]
                days == stored.preferred_workout_days
            IN /\ last.ret # NoneDoc
               /\ [last.ret EXCEPT !.preferred_workout_days = days] = stored
               /\ last.ret.preferred_workout_days
                    = IF days.kind = "list" /\ days.val # <<>>
                        THEN DaysScalar(Head(days.val))
                        ELSE days

\* C15: on the real store with the by_hevy_id views in place, when two callers
\* have both finished an upsert of the same hevy_id that was not stored at
\* their lookups, the store holds at most one document of that type and
\* hevy_id, however their lookups and saves interleaved.
RacedOn(w, l) ==
  /\ w # l
  /\ Finished(w) /\ Finished(l)
  /\ local[w].base = NoneDoc /\ local[l].base = NoneDoc
  /\ local[w].doc.type = local[l].doc.type
  /\ local[w].doc.hevy_id = local[l].doc.hevy_id

C15_OneDocumentUnderInterleaving ==
  (/\ db = "couch"
   /\ ViewStatus("exercises", "by_hevy_id") = "ok"
   /\ ViewStatus("workouts", "by_hevy_id") = "ok") =>
    \A w, l \in Callers :
      RacedOn(w, l) =>
        Cardinality(ByHevyIdRows(local[w].doc.type, local[w].doc.hevy_id)) <= 1

\* C16: on the mock store the calls answer as on the real store: a
\* get_document of a stored id returns the stored document without raising,
\* and the upserts of typed payloads leave one document per hevy_id.
C16_MockInterchangeable ==
  db = "mock" =>
    /\ (last.op = "get_document" /\ last.arg \in Ids) =>
         (~last.raised /\ last.ret = data[last.arg])
    /\ \A t \in {"exercise", "workout"}, h \in HevyIds :
         Cardinality(ByHevyIdRows(t, h)) <= 1

\* C17: in every reachable state of the store and for every name,
\* get_user_by_username(name) returns a document exactly when
\* username_exists(name) is true.
C17_UsernameQueriesAgree ==
  \A n \in Usernames :
    (get_user_by_username(n) # NoneDoc) <=> username_exists(n)

\* C18: whenever render_page has run with session user_id unset or None,
\* the page it rendered is login or register, never a protected page.
C18_NoProtectedPageLoggedOut ==
  (app.rendered # "none" /\ app.as_user \in {"unset", NoUser}) =>
    app.rendered \in PublicPages

\* a logged-out run whose session page was the default "dashboard" rendered
\* the registration page, and the page component then logged the user in
C18_Witness ==
  /\ app.pc = "start"
  /\ app.rendered = "register"
  /\ app.as_user = NoUser
  /\ app.user_id = "u1"
  /\ app.page = "dashboard"

NextBoot ==
  \/ \E f \in ConnectOutcomes, s \in RetryOutcomes : Connect(f, s)
  \/ EnsureViews
  \/ \E d \in DesignNames, v \in CustomViewNames : CreateView(d, v)

SpecBoot == Init /\ [][NextBoot]_vars
====
